---- MODULE Spec2Model ----
(***************************************************************************)
(* Model of the tokenizer of CCinRust (src/lib/lexer.rs).                  *)
(*                                                                         *)
(* A Lexer holds the token vector, a peekable character iterator over the  *)
(* input and the boolean status.  The iterator is modelled by the input    *)
(* (a sequence of one-character strings) and pos, the number of characters *)
(* already taken by next(); peek() reads input[pos + 1] without moving     *)
(* pos.  One action models one iteration of the dispatch loop of lex(),    *)
(* one action per match arm.                                               *)
(***************************************************************************)
EXTENDS Integers, Sequences, FiniteSets, TLC

VARIABLES input, pos, tokens, status, pc, exit, result, calls

vars == <<input, pos, tokens, status, pc, exit, result, calls>>

(***************************************************************************)
(* Bounds of the model.                                                    *)
(***************************************************************************)
MaxLen == 3
MaxCalls == 2

(***************************************************************************)
(* Characters.  A character is a one-character string; None is the absent  *)
(* character of Option<char>.                                              *)
(***************************************************************************)
None == ""

AsciiDigit == {"0", "1", "2", "3", "4", "5", "6", "7", "8", "9"}

AsciiLower == {"a", "b", "c", "d", "e", "f", "g", "h", "i", "j", "k", "l", "m",
               "n", "o", "p", "q", "r", "s", "t", "u", "v", "w", "x", "y", "z"}

AsciiUpper == {"A", "B", "C", "D", "E", "F", "G", "H", "I", "J", "K", "L", "M",
               "N", "O", "P", "Q", "R", "S", "T", "U", "V", "W", "X", "Y", "Z"}

\* U+00E9 (e with acute) and U+00BD (vulgar fraction one half) stand for the
\* characters that are alphabetic / numeric in Unicode but not in ASCII.
NonAsciiAlphabetic == {"U+00E9"}
NonAsciiNumeric == {"U+00BD"}

is_digit(c) == c \in AsciiDigit
is_numeric(c) == c \in AsciiDigit \cup NonAsciiNumeric
is_alphabetic(c) == c \in AsciiLower \cup AsciiUpper \cup NonAsciiAlphabetic
is_ascii_alphabetic(c) == c \in AsciiLower \cup AsciiUpper
is_ascii_digit(c) == c \in AsciiDigit
is_ascii_control(c) == c \in {"\n", "\t", "\r"}

Quote == {"\"", "'"}
Operator == {"+", "-", "*", "&", "|", "^", "="}

(***************************************************************************)
(* The two classification tables.                                          *)
(***************************************************************************)
SymbolError == "SymbolError"
KeywordError == "KeywordError"

SpecialSymbol_from_str(s) ==
  CASE s = <<"#">> -> "Sharp"
    [] s = <<"<">> -> "LeftAngleBracket"
    [] s = <<">">> -> "RightAngleBracket"
    [] s = <<"(">> -> "LeftParenthesis"
    [] s = <<")">> -> "RightParenthesis"
    [] s = <<"{">> -> "LeftBrace"
    [] s = <<"}">> -> "RightBrace"
    [] s = <<"[">> -> "LeftSquareParenthesis"
    [] s = <<"]">> -> "RightSquareParenthesis"
    [] s = <<"=">> -> "Assign"
    [] s = <<"=", "=">> -> "Equal"
    [] s = <<">", "=">> -> "GreaterOrEqual"
    [] s = <<"<", "=">> -> "SmallerOrEqual"
    [] s = <<",">> -> "Comma"
    [] s = <<";">> -> "Semicolon"
    [] OTHER -> SymbolError

Keyword_from_str(s) ==
  CASE s = <<"c", "o", "n", "s", "t">> -> "Const"
    [] s = <<"e", "n", "u", "m">> -> "Enum"
    [] s = <<"r", "e", "t", "u", "r", "n">> -> "Return"
    [] s = <<"n", "e", "w">> -> "New"
    [] s = <<"d", "e", "l", "e", "t", "e">> -> "Delete"
    [] s = <<"i", "n", "c", "l", "u", "d", "e">> -> "Include"
    [] s = <<"v", "o", "i", "d">> -> "Void"
    [] s = <<"i", "n", "t">> -> "Int"
    [] s = <<"d", "o", "u", "b", "l", "e">> -> "Double"
    [] s = <<"d", "o">> -> "Do"
    [] s = <<"f", "o", "r">> -> "For"
    [] s = <<"w", "h", "i", "l", "e">> -> "While"
    [] s = <<"b", "r", "e", "a", "k">> -> "Break"
    [] s = <<"c", "o", "n", "t", "i", "n", "u", "e">> -> "Continue"
    [] s = <<"i", "f">> -> "If"
    [] s = <<"e", "l", "s", "e">> -> "Else"
    [] s = <<"s", "w", "i", "t", "c", "h">> -> "Switch"
    [] s = <<"c", "a", "s", "e">> -> "Case"
    [] OTHER -> KeywordError

(***************************************************************************)
(* Tokens and results.  A Keyword or SpecialSymbol token carries the name  *)
(* of its enum variant, the other tokens carry their text.                 *)
(***************************************************************************)
Token(kind, name, text) == [kind |-> kind, name |-> name, text |-> text]

Keyword(k) == Token("Keyword", k, <<>>)
SpecialSymbol(v) == Token("SpecialSymbol", v, <<>>)
Comment(s) == Token("Comment", "", s)
NumberLiteral(s) == Token("NumberLiteral", "", s)
StringLiteral(s) == Token("StringLiteral", "", s)
Identifier(s) == Token("Identifier", "", s)

LexerError(msg) == [tag |-> "Err", details |-> msg]
NoResult == [tag |-> "none", details |-> ""]
Panic == [tag |-> "panic", details |-> "called Option::unwrap() on a None value"]

LexerError_from_SymbolError == LexerError("SymbolError convert to LexerError")

(***************************************************************************)
(* The cursor: Lexer::next and Lexer::peek.  next() takes the character at *)
(* pos + 1, or, when there is none, sets status to true and fails.         *)
(***************************************************************************)
\* next with the status left alone at the end of input
next_keeps_status(in, p, st) ==
  IF p < Len(in)
    THEN [ok |-> TRUE, ch |-> in[p + 1], pos |-> p + 1, status |-> st]
    ELSE [ok |-> FALSE, ch |-> None, pos |-> p, status |-> st]

next(in, p, st) ==
  IF p < Len(in)
    THEN [ok |-> TRUE, ch |-> in[p + 1], pos |-> p + 1, status |-> st]
    ELSE [ok |-> FALSE, ch |-> None, pos |-> p, status |-> TRUE]

peek(in, p) == IF p < Len(in) THEN in[p + 1] ELSE None

push_token(toks, token) == Append(toks, token)

get_status == status

(***************************************************************************)
(* The state lex() leaves after one iteration of its loop: either the loop *)
(* goes on (Continue), or lex() returns an error from the named exit       *)
(* (Return), or the thread panics (Unwind).                                *)
(***************************************************************************)
Continue(p, toks, st) ==
  [pos |-> p, tokens |-> toks, status |-> st, pc |-> "dispatch",
   exit |-> "none", result |-> NoResult]

Return(p, toks, st, ex, err) ==
  [pos |-> p, tokens |-> toks, status |-> st, pc |-> "returned",
   exit |-> ex, result |-> err]

Unwind(p, toks, st) ==
  [pos |-> p, tokens |-> toks, status |-> st, pc |-> "panicked",
   exit |-> "unwrap", result |-> Panic]

(***************************************************************************)
(* Inner loops of lex().  Each returns the cursor, the status and the text *)
(* collected, with ok = FALSE when a next() inside the loop failed.        *)
(***************************************************************************)
Scanned(ok, p, st, text) == [ok |-> ok, pos |-> p, status |-> st, text |-> text]

\* string_loop with either quote character closing the literal
RECURSIVE string_loop_any_quote(_, _, _, _, _)
string_loop_any_quote(in, p, st, ch, s) ==
  LET n == next(in, p, st) IN
    IF ~n.ok THEN Scanned(FALSE, n.pos, n.status, s)
    ELSE IF n.ch \in Quote THEN Scanned(TRUE, n.pos, n.status, s)
    ELSE string_loop_any_quote(in, n.pos, n.status, ch, Append(s, n.ch))

RECURSIVE string_loop(_, _, _, _, _)
string_loop(in, p, st, ch, s) ==
  LET n == next(in, p, st) IN
    IF ~n.ok THEN Scanned(FALSE, n.pos, n.status, s)
    ELSE IF ch = n.ch THEN Scanned(TRUE, n.pos, n.status, s)
    ELSE string_loop(in, n.pos, n.status, ch, Append(s, n.ch))

RECURSIVE block_comment_loop(_, _, _, _, _)
block_comment_loop(in, p, st, state, s) ==
  IF state = 2 THEN Scanned(TRUE, p, st, s)
  ELSE LET n == next(in, p, st) IN
    IF ~n.ok THEN Scanned(FALSE, n.pos, n.status, s)
    ELSE CASE n.ch = "*" -> block_comment_loop(in, n.pos, n.status, 1, s)
           [] n.ch = "/" -> block_comment_loop(in, n.pos, n.status,
                                               IF state = 1 THEN 2 ELSE state, s)
           [] OTHER -> block_comment_loop(in, n.pos, n.status, 0,
                         (IF state = 1 THEN Append(s, "*") ELSE s) \o <<n.ch>>)

RECURSIVE get_line_loop(_, _, _, _)
get_line_loop(in, p, st, buf) ==
  LET n == next(in, p, st) IN
    IF ~n.ok THEN Scanned(FALSE, n.pos, n.status, buf)
    ELSE IF is_ascii_control(n.ch) THEN Scanned(TRUE, n.pos, n.status, buf)
    ELSE get_line_loop(in, n.pos, n.status, Append(buf, n.ch))

get_line(in, p, st) == get_line_loop(in, p, st, <<>>)

\* while self.peek().unwrap().is_digit(10) { num.push(self.next()?); }
\* ok = FALSE is the panic of unwrap() on None.
RECURSIVE digit_loop(_, _, _, _)
digit_loop(in, p, st, num) ==
  IF peek(in, p) = None THEN Scanned(FALSE, p, st, num)
  ELSE IF is_digit(peek(in, p))
    THEN LET n == next(in, p, st) IN digit_loop(in, n.pos, n.status, Append(num, n.ch))
    ELSE Scanned(TRUE, p, st, num)

\* while let Some(n) = self.peek() { if n.is_numeric() { push(next) } else { break } }
RECURSIVE fraction_loop(_, _, _, _)
fraction_loop(in, p, st, num) ==
  IF peek(in, p) # None /\ is_numeric(peek(in, p))
    THEN LET n == next(in, p, st) IN fraction_loop(in, n.pos, n.status, Append(num, n.ch))
    ELSE Scanned(TRUE, p, st, num)

\* identifier_loop with the name ending at a "."
RECURSIVE identifier_loop_stops_at_dot(_, _, _, _)
identifier_loop_stops_at_dot(in, p, st, s) ==
  LET c == peek(in, p) IN
    IF c # None /\ (is_ascii_alphabetic(c) \/ is_ascii_digit(c))
      THEN LET n == next(in, p, st)
           IN identifier_loop_stops_at_dot(in, n.pos, n.status, Append(s, n.ch))
      ELSE Scanned(TRUE, p, st, s)

RECURSIVE identifier_loop(_, _, _, _)
identifier_loop(in, p, st, s) ==
  LET c == peek(in, p) IN
    IF c # None /\ (is_ascii_alphabetic(c) \/ is_ascii_digit(c) \/ c = ".")
      THEN LET n == next(in, p, st) IN identifier_loop(in, n.pos, n.status, Append(s, n.ch))
      ELSE Scanned(TRUE, p, st, s)

(***************************************************************************)
(* The match arms of lex().  ch is the character the dispatch took, p the  *)
(* cursor after it.                                                        *)
(***************************************************************************)
\* lex_string with the partial text emitted as a token at the end of input
lex_string_emits_partial(in, p, toks, st, ch) ==
  LET r == string_loop(in, p, st, ch, <<>>) IN
    IF r.ok
      THEN Continue(r.pos, Append(toks, StringLiteral(r.text)), r.status)
      ELSE Return(r.pos, Append(toks, StringLiteral(r.text)), r.status, "string",
                  LexerError("Unexpected string ends with EOF"))

lex_string(in, p, toks, st, ch) ==
  LET r == string_loop(in, p, st, ch, <<>>) IN
    IF r.ok
      THEN Continue(r.pos, Append(toks, StringLiteral(r.text)), r.status)
      ELSE Return(r.pos, toks, r.status, "string",
                  LexerError("Unexpected string ends with EOF"))

lex_block_comment(in, p, toks, st) ==
  LET r == block_comment_loop(in, p, st, 0, <<>>) IN
    IF r.ok
      THEN Continue(r.pos, push_token(toks, Comment(r.text)), r.status)
      ELSE Return(r.pos, toks, r.status, "block", LexerError("Finish"))

lex_line_comment(in, p, toks, st) ==
  LET r == get_line(in, p, st) IN
    IF r.ok
      THEN Continue(r.pos, push_token(toks, Comment(r.text)), r.status)
      ELSE Return(r.pos, toks, r.status, "line", LexerError("Finish"))

\* push_token(Token::SpecialSymbol(SpecialSymbol::from_str(&s)?))
lex_symbol(p, toks, st, s) ==
  LET sym == SpecialSymbol_from_str(s) IN
    IF sym = SymbolError
      THEN Return(p, toks, st, "symbol", LexerError_from_SymbolError)
      ELSE Continue(p, push_token(toks, SpecialSymbol(sym)), st)

lex_slash(in, p, toks, st, ch) ==
  LET n == peek(in, p) IN
    IF n = None THEN Continue(p, toks, st)
    ELSE CASE n = "*" -> lex_block_comment(in, p, toks, st)
           [] n = "=" -> lex_symbol(p, toks, st, <<ch, n>>)
           [] n = "/" -> lex_line_comment(in, p, toks, st)
           [] OTHER -> lex_symbol(p, toks, st, <<ch>>)

lex_operator(in, p, toks, st, ch) ==
  LET s == IF peek(in, p) = "=" THEN <<ch, "=">> ELSE <<ch>> IN
    lex_symbol(p, toks, st, s)

lex_decimal(in, p, toks, st, ch) ==
  LET d == digit_loop(in, p, st, <<ch>>) IN
    IF ~d.ok THEN Unwind(d.pos, toks, d.status)
    ELSE LET f == IF peek(in, d.pos) = "."
                    THEN fraction_loop(in, d.pos, d.status, Append(d.text, "."))
                    ELSE d
         IN Continue(f.pos, push_token(toks, NumberLiteral(f.text)), f.status)

lex_identifier(in, p, toks, st, ch) ==
  LET r == identifier_loop(in, p, st, <<ch>>)
      keyword == Keyword_from_str(r.text)
  IN IF keyword # KeywordError
       THEN Continue(r.pos, push_token(toks, Keyword(keyword)), r.status)
       ELSE Continue(r.pos, push_token(toks, Identifier(r.text)), r.status)

\* lex_other with an unknown character skipped instead of reported
lex_other_skips_unknown(p, toks, st, ch) ==
  LET sym == SpecialSymbol_from_str(<<ch>>) IN
    IF sym # SymbolError
      THEN Continue(p, push_token(toks, SpecialSymbol(sym)), st)
      ELSE Continue(p, toks, st)

lex_other(p, toks, st, ch) ==
  LET sym == SpecialSymbol_from_str(<<ch>>) IN
    IF sym # SymbolError
      THEN Continue(p, push_token(toks, SpecialSymbol(sym)), st)
      ELSE Return(p, toks, st, "other",
                  LexerError("Unexpected symbol in the sequence"))

(***************************************************************************)
(* Inputs.  Every text over Alphabet of at most MaxLen characters, and the *)
(* example texts of the specification.  Alphabet holds the characters of  *)
(* the classes lex() tells apart: both quotes, the slash, the star, the    *)
(* equals sign, a digit, the dot, a letter, a character of the symbol      *)
(* table, an unknown character, the space and the newline.                 *)
(***************************************************************************)
Alphabet == {"\"", "'", "/", "*", "=", "1", ".", "a", "<", "@", " ", "\n"}

Texts(n) == UNION {[1..k -> Alphabet] : k \in 0..n}

Examples ==
  { <<"1", "2", "3">>,
    <<"3", ".", "1", "4">>,
    <<"\"", "a", "b", "c", "\"">>,
    <<"/", "/", " ", "n", "o", "t", "e", "\n">>,
    <<"/", "*", " ", "a", " ", "*", " ", "b", " ", "*", "/">>,
    <<"i", "f", "(", "x", ">", "=", "1", ")", "{", "r", "e", "t", "u", "r", "n", ";", "}">>,
    <<"\"", "u", "n", "t", "e", "r", "m", "i", "n", "a", "t", "e", "d">>,
    <<"/", "*", " ", "n", "e", "v", "e", "r", " ", "c", "l", "o", "s", "e", "d">>,
    <<"@">>,
    <<"x", "+", "=", "1", ";">>,
    <<"U+00E9", "1", "U+00BD", " ">>,
    <<"a", "'", "b", "\"", "'", "c">>,
    <<"d", "o", ".", "x", " ", "d", "o">>,
    <<"a", ".", "b", ".", "c">>,
    <<"'", "\\", "n", "\"", "\n", "'", "x">> }

Inputs == Texts(MaxLen) \cup Examples

(***************************************************************************)
(* Lexer::new: no token, the cursor before the first character, status     *)
(* false.                                                                  *)
(***************************************************************************)
new(buffer) ==
  [input |-> buffer, pos |-> 0, tokens |-> <<>>, status |-> FALSE]

Init ==
  \E buffer \in Inputs :
    /\ input = new(buffer).input
    /\ pos = new(buffer).pos
    /\ tokens = new(buffer).tokens
    /\ status = new(buffer).status
    /\ pc = "ready"
    /\ exit = "none"
    /\ result = NoResult
    /\ calls = 0

\* The caller enters lex(): the first call, or a further call on a Lexer
\* whose lex() has returned.
lex ==
  /\ pc \in {"ready", "returned"}
  /\ calls < MaxCalls
  /\ pc' = "dispatch"
  /\ exit' = "none"
  /\ result' = NoResult
  /\ calls' = calls + 1
  /\ UNCHANGED <<input, pos, tokens, status>>

Becomes(r) ==
  /\ pos' = r.pos
  /\ tokens' = r.tokens
  /\ status' = r.status
  /\ pc' = r.pc
  /\ exit' = r.exit
  /\ result' = r.result
  /\ UNCHANGED <<input, calls>>

\* let ch = self.next()?  with no character left
Finish ==
  /\ pc = "dispatch"
  /\ ~next(input, pos, status).ok
  /\ Becomes(Return(pos, tokens, next(input, pos, status).status, "dispatch",
                    LexerError("Finish")))

\* let ch = self.next()?  with a character: ch and the cursor after it
Dispatch(ch, p) ==
  /\ pc = "dispatch"
  /\ next(input, pos, status).ok
  /\ ch = next(input, pos, status).ch
  /\ p = next(input, pos, status).pos

LexString ==
  \E ch \in Quote, p \in 1..Len(input) :
    /\ Dispatch(ch, p)
    /\ Becomes(lex_string(input, p, tokens, status, ch))

LexSlash ==
  \E p \in 1..Len(input) :
    /\ Dispatch("/", p)
    /\ Becomes(lex_slash(input, p, tokens, status, "/"))

LexOperator ==
  \E ch \in Operator, p \in 1..Len(input) :
    /\ Dispatch(ch, p)
    /\ Becomes(lex_operator(input, p, tokens, status, ch))

LexDecimal ==
  \E p \in 1..Len(input) :
    /\ Dispatch(input[p], p)
    /\ is_digit(input[p])
    /\ Becomes(lex_decimal(input, p, tokens, status, input[p]))

LexIdentifier ==
  \E p \in 1..Len(input) :
    /\ Dispatch(input[p], p)
    /\ is_alphabetic(input[p])
    /\ Becomes(lex_identifier(input, p, tokens, status, input[p]))

LexSpace ==
  \E ch \in {" ", "\n"}, p \in 1..Len(input) :
    /\ Dispatch(ch, p)
    /\ Becomes(Continue(p, tokens, status))

LexOther ==
  \E p \in 1..Len(input) :
    /\ Dispatch(input[p], p)
    /\ input[p] \notin Quote \cup {"/"} \cup Operator \cup {" ", "\n"}
    /\ ~is_digit(input[p])
    /\ ~is_alphabetic(input[p])
    /\ Becomes(lex_other(p, tokens, status, input[p]))

Next ==
  \/ lex
  \/ Finish
  \/ LexString
  \/ LexSlash
  \/ LexOperator
  \/ LexDecimal
  \/ LexIdentifier
  \/ LexSpace
  \/ LexOther

Spec == Init /\ [][Next]_vars

TypeOK ==
  /\ pos \in 0..Len(input)
  /\ status \in BOOLEAN
  /\ pc \in {"ready", "dispatch", "returned", "panicked"}
  /\ exit \in {"none", "dispatch", "string", "block", "line", "symbol", "other", "unwrap"}
  /\ calls \in 0..MaxCalls

(***************************************************************************)
(* Vocabulary of the properties.  It is stated on the input text alone,    *)
(* independently of the scanning operators above.                          *)
(***************************************************************************)
\* lex() is about to dispatch on the character at index pos + 1
Dispatching == pc = "dispatch" /\ pos < Len(input)

Char(i) == IF i \in 1..Len(input) THEN input[i] ELSE None

\* the iteration appended exactly the token t and moved the cursor to p
Emitted(t, p) == tokens' = Append(tokens, t) /\ pos' = p /\ pc' = "dispatch"

\* last index of the maximal run of decimal digits that starts at index i
DigitRunEnd(i) ==
  CHOOSE j \in i..Len(input) :
    /\ \A k \in i..j : input[k] \in AsciiDigit
    /\ Char(j + 1) \notin AsciiDigit

\* indices k of a "*" followed by "/", after a "/*" opened at index o
Closers(o) == {k \in o + 2..Len(input) - 1 : input[k] = "*" /\ input[k + 1] = "/"}

FirstCloser(o) == CHOOSE k \in Closers(o) : \A m \in Closers(o) : k <= m

\* the character belongs to none of the classes lex() dispatches on
NoTokenClass(c) ==
  /\ c \notin {"\"", "'", "/", "+", "-", "*", "&", "|", "^", "=", " ", "\n"}
  /\ c \notin AsciiDigit
  /\ c \notin AsciiLower \cup AsciiUpper \cup NonAsciiAlphabetic

SymbolTable == {"<", ">", "(", ")", "{", "}", "[", "]", "#", ",", ";"}

(***************************************************************************)
(* C1.  After lex() returns, get_status() is true exactly for a scan that  *)
(* consumed the whole input without meeting a malformed construct: true    *)
(* after the end of input met at a token boundary, false after an          *)
(* unterminated string literal, an unterminated block comment or an        *)
(* unexpected symbol.                                                      *)
(***************************************************************************)
C1_StatusSeparatesCleanFromError ==
  pc = "returned" =>
    /\ exit = "dispatch" => get_status = TRUE
    /\ exit \in {"string", "block", "other"} => get_status = FALSE

(***************************************************************************)
(* C2.  When the dispatch loop finds no next character at a token          *)
(* boundary, the value lex() returns is not a value of the error           *)
(* representation: the returned result alone tells the end of input from   *)
(* malformed input.                                                        *)
(***************************************************************************)
C2_EndOfInputIsNotAnError ==
  (pc = "returned" /\ exit = "dispatch") => result.tag # "Err"

(***************************************************************************)
(* C3.  When lex() dispatches on a digit and only digits follow up to the  *)
(* end of input, it does not crash: it appends one NumberLiteral holding   *)
(* the whole digit run, and the scan goes on to its clean end.             *)
(***************************************************************************)
C3_DigitRunAtEndOfInput ==
  [][ (Dispatching /\ \A i \in pos + 1..Len(input) : input[i] \in AsciiDigit)
        => Emitted(NumberLiteral(SubSeq(input, pos + 1, Len(input))), Len(input))
    ]_vars

(***************************************************************************)
(* C4.  When lex() dispatches on a digit run followed by "." and a second  *)
(* digit run, it appends exactly one NumberLiteral whose text is the two   *)
(* runs with the "." between them, and consumes all of these characters.   *)
(***************************************************************************)
C4_DecimalFraction ==
  [][ (/\ Dispatching
       /\ Char(pos + 1) \in AsciiDigit
       /\ Char(DigitRunEnd(pos + 1) + 1) = "."
       /\ Char(DigitRunEnd(pos + 1) + 2) \in AsciiDigit)
        => LET e == DigitRunEnd(DigitRunEnd(pos + 1) + 2)
           IN Emitted(NumberLiteral(SubSeq(input, pos + 1, e)), e)
    ]_vars

(***************************************************************************)
(* C5.  Maximal munch: when lex() dispatches on one of + - * & | ^ = /     *)
(* and the next character is "=", it consumes both characters and appends  *)
(* exactly one Symbol token, without an error.                             *)
(***************************************************************************)
C5_CompoundOperator ==
  [][ (/\ Dispatching
       /\ Char(pos + 1) \in {"+", "-", "*", "&", "|", "^", "=", "/"}
       /\ Char(pos + 2) = "=")
        => /\ pc' = "dispatch"
           /\ pos' = pos + 2
           /\ Len(tokens') = Len(tokens) + 1
           /\ SubSeq(tokens', 1, Len(tokens)) = tokens
           /\ tokens'[Len(tokens')].kind = "SpecialSymbol"
    ]_vars

(***************************************************************************)
(* C6.  When "<" or ">" is followed by "=", lex() appends the single       *)
(* symbol SmallerOrEqual / GreaterOrEqual and consumes both characters;    *)
(* scanning "if(x>=1){return;}" yields exactly the ten tokens if ( x >= 1  *)
(* ) { return ; } in that order.                                           *)
(***************************************************************************)
IfExample ==
  <<"i", "f", "(", "x", ">", "=", "1", ")", "{", "r", "e", "t", "u", "r", "n", ";", "}">>

IfExampleTokens ==
  << Keyword("If"), SpecialSymbol("LeftParenthesis"), Identifier(<<"x">>),
     SpecialSymbol("GreaterOrEqual"), NumberLiteral(<<"1">>),
     SpecialSymbol("RightParenthesis"), SpecialSymbol("LeftBrace"),
     Keyword("Return"), SpecialSymbol("Semicolon"), SpecialSymbol("RightBrace") >>

C6_AngleBracketEquals ==
  /\ [][ (Dispatching /\ Char(pos + 1) \in {"<", ">"} /\ Char(pos + 2) = "=")
           => Emitted(SpecialSymbol(IF Char(pos + 1) = "<" THEN "SmallerOrEqual"
                                                          ELSE "GreaterOrEqual"),
                      pos + 2)
       ]_vars
  /\ []((input = IfExample /\ pc = "returned") => tokens = IfExampleTokens)

(***************************************************************************)
(* C7.  For a terminated block comment the Comment token's text is exactly *)
(* the input between the opening slash-star and the first closing          *)
(* star-slash after it, verbatim.                                          *)
(***************************************************************************)
C7_BlockCommentText ==
  [][ (/\ Dispatching
       /\ Char(pos + 1) = "/"
       /\ Char(pos + 2) = "*"
       /\ Closers(pos + 1) # {})
        => LET k == FirstCloser(pos + 1)
           IN Emitted(Comment(SubSeq(input, pos + 3, k - 1)), k + 1)
    ]_vars

(***************************************************************************)
(* C8.  When a block comment is opened and no closing star-slash follows,  *)
(* lex() returns an error that differs from the outcome of a clean end of  *)
(* input, and appends no Comment token.                                    *)
(***************************************************************************)
C8_UnterminatedComment ==
  [][ (/\ Dispatching
       /\ Char(pos + 1) = "/"
       /\ Char(pos + 2) = "*"
       /\ Closers(pos + 1) = {})
        => /\ pc' = "returned"
           /\ tokens' = tokens
           /\ result'.tag = "Err"
           /\ ~(result' = LexerError("Finish") /\ status' = TRUE)
    ]_vars

(***************************************************************************)
(* C9.  When lex() dispatches on a quote character and no equal character  *)
(* follows before the end of input, it returns the unterminated-string     *)
(* error and leaves the token sequence as it was before the quote.         *)
(***************************************************************************)
C9_UnterminatedString ==
  [][ (/\ Dispatching
       /\ Char(pos + 1) \in {"\"", "'"}
       /\ \A i \in pos + 2..Len(input) : input[i] # input[pos + 1])
        => /\ pc' = "returned"
           /\ result' = LexerError("Unexpected string ends with EOF")
           /\ tokens' = tokens
    ]_vars

\* lex() has returned from the string loop, after having emitted tokens
C9_Witness == pc = "returned" /\ exit = "string" /\ tokens # <<>>

Terminators(o) == {k \in o + 2..Len(input) : input[k] \in {"\n", "\t", "\r"}}

FirstTerminator(o) == CHOOSE k \in Terminators(o) : \A m \in Terminators(o) : k <= m

C11_LineCommentText ==
  [][ (/\ Dispatching
       /\ Char(pos + 1) = "/"
       /\ Char(pos + 2) = "/"
       /\ Terminators(pos + 1) # {})
        => LET k == FirstTerminator(pos + 1)
           IN Emitted(Comment(SubSeq(input, pos + 3, k - 1)), k)
    ]_vars

(***************************************************************************)
(* C12.  When lex() dispatches on one of + - * & | ^ = not followed by     *)
(* "=", or on "/" not followed by "*", "=" or "/", it appends exactly one  *)
(* Symbol token, consumes that one character and goes on scanning.         *)
(***************************************************************************)
C12_SingleOperator ==
  [][ (/\ Dispatching
       /\ \/ Char(pos + 1) \in {"+", "-", "*", "&", "|", "^", "="}
                /\ Char(pos + 2) # "="
          \/ Char(pos + 1) = "/" /\ Char(pos + 2) \notin {"*", "=", "/"})
        => /\ pc' = "dispatch"
           /\ pos' = pos + 1
           /\ Len(tokens') = Len(tokens) + 1
           /\ SubSeq(tokens', 1, Len(tokens)) = tokens
           /\ tokens'[Len(tokens')].kind = "SpecialSymbol"
    ]_vars

(***************************************************************************)
(* C13.  When lex() dispatches on a quote character q and a later          *)
(* character equals q, it appends exactly one StringLiteral whose text is  *)
(* the input strictly between the opening q and the first following q,     *)
(* verbatim, and the cursor stands after the closing q.                    *)
(***************************************************************************)
\* indices of the characters equal to the quote at index o, after it
Closings(o) == {k \in o + 1..Len(input) : input[k] = input[o]}

FirstClosing(o) == CHOOSE k \in Closings(o) : \A m \in Closings(o) : k <= m

C13_StringLiteralText ==
  [][ (/\ Dispatching
       /\ Char(pos + 1) \in {"\"", "'"}
       /\ Closings(pos + 1) # {})
        => LET k == FirstClosing(pos + 1)
           IN Emitted(StringLiteral(SubSeq(input, pos + 2, k - 1)), k)
    ]_vars

\* a StringLiteral that holds a newline or the other quote character has
\* been appended, and input is left after its closing quote
C13_Witness ==
  /\ pc = "dispatch"
  /\ pos < Len(input)
  /\ tokens # <<>>
  /\ tokens[Len(tokens)].kind = "StringLiteral"
  /\ \E i \in 1..Len(tokens[Len(tokens)].text) :
       tokens[Len(tokens)].text[i] \in {"\n", "\"", "'"}
  /\ input[pos] \in {"\"", "'"}

(***************************************************************************)
(* C14.  When lex() dispatches on an ASCII letter, it consumes the maximal *)
(* following run of ASCII letters, ASCII digits and "." and appends        *)
(* exactly one token: a Keyword if the text is one of the 18 keywords,     *)
(* otherwise the Identifier carrying the text verbatim.                    *)
(***************************************************************************)
NameChar == AsciiLower \cup AsciiUpper \cup AsciiDigit \cup {"."}

\* last index of the maximal run of name characters that follows index i
NameRunEnd(i) ==
  CHOOSE j \in i..Len(input) :
    /\ \A k \in i + 1..j : input[k] \in NameChar
    /\ Char(j + 1) \notin NameChar

KeywordTable ==
  { <<"c", "o", "n", "s", "t">>, <<"e", "n", "u", "m">>,
    <<"r", "e", "t", "u", "r", "n">>, <<"n", "e", "w">>,
    <<"d", "e", "l", "e", "t", "e">>, <<"i", "n", "c", "l", "u", "d", "e">>,
    <<"v", "o", "i", "d">>, <<"i", "n", "t">>, <<"d", "o", "u", "b", "l", "e">>,
    <<"d", "o">>, <<"f", "o", "r">>, <<"w", "h", "i", "l", "e">>,
    <<"b", "r", "e", "a", "k">>, <<"c", "o", "n", "t", "i", "n", "u", "e">>,
    <<"i", "f">>, <<"e", "l", "s", "e">>, <<"s", "w", "i", "t", "c", "h">>,
    <<"c", "a", "s", "e">> }

C14_IdentifierOrKeyword ==
  [][ (Dispatching /\ Char(pos + 1) \in AsciiLower \cup AsciiUpper)
        => LET e == NameRunEnd(pos + 1)
               text == SubSeq(input, pos + 1, e)
           IN /\ pc' = "dispatch"
              /\ pos' = e
              /\ Len(tokens') = Len(tokens) + 1
              /\ SubSeq(tokens', 1, Len(tokens)) = tokens
              /\ IF text \in KeywordTable
                   THEN /\ tokens'[Len(tokens')].kind = "Keyword"
                        /\ tokens'[Len(tokens')].text = <<>>
                   ELSE tokens'[Len(tokens')] = Identifier(text)
    ]_vars

\* a dotted Identifier and then a Keyword that ends at the end of input
\* have been appended
C14_Witness ==
  /\ pc = "dispatch"
  /\ pos = Len(input)
  /\ Len(tokens) >= 2
  /\ tokens[Len(tokens)].kind = "Keyword"
  /\ \E i \in 1..Len(tokens) :
       /\ tokens[i].kind = "Identifier"
       /\ \E j \in 1..Len(tokens[i].text) : tokens[i].text[j] = "."

(***************************************************************************)
(* Lengths of lexemes, read off the tokens.                                *)
(***************************************************************************)
KeywordLen(name) ==
  CASE name \in {"Do", "If"} -> 2
    [] name \in {"New", "Int", "For"} -> 3
    [] name \in {"Enum", "Void", "Else", "Case"} -> 4
    [] name \in {"Const", "While", "Break"} -> 5
    [] name \in {"Return", "Delete", "Double", "Switch"} -> 6
    [] name \in {"Include"} -> 7
    [] name \in {"Continue"} -> 8

\* number of input characters that make up the text of the token
LexemeLen(t) ==
  CASE t.kind = "Keyword" -> KeywordLen(t.name)
    [] t.kind = "SpecialSymbol" ->
         IF t.name \in {"Equal", "GreaterOrEqual", "SmallerOrEqual"} THEN 2 ELSE 1
    [] OTHER -> Len(t.text)

\* the most input characters the token can stand for, delimiters included
CoveredLen(t) ==
  CASE t.kind = "Comment" -> Len(t.text) + 4
    [] t.kind = "StringLiteral" -> Len(t.text) + 2
    [] OTHER -> LexemeLen(t)

RECURSIVE SumLexemeLen(_)
SumLexemeLen(toks) ==
  IF toks = <<>> THEN 0 ELSE LexemeLen(Head(toks)) + SumLexemeLen(Tail(toks))

RECURSIVE SumCoveredLen(_)
SumCoveredLen(toks) ==
  IF toks = <<>> THEN 0 ELSE CoveredLen(Head(toks)) + SumCoveredLen(Tail(toks))

Blanks == Cardinality({i \in 1..Len(input) : input[i] \in {" ", "\n"}})

(***************************************************************************)
(* C15.  No consumed input is silently dropped.  An iteration that takes   *)
(* a character other than a space or newline appends a token or ends the   *)
(* scan with an outcome other than the clean one; and after a clean        *)
(* termination the emitted tokens, with their delimiters, and the blanks   *)
(* account for every input character.                                      *)
(***************************************************************************)
C15_NothingSilentlyDropped ==
  /\ [][ (Dispatching /\ Char(pos + 1) \notin {" ", "\n"})
           => \/ Len(tokens') = Len(tokens) + 1
              \/ pc' = "panicked"
              \/ /\ pc' = "returned"
                 /\ ~(get_status' = TRUE /\ result' = LexerError("Finish"))
       ]_vars
  /\ []((pc = "returned" /\ get_status = TRUE /\ result = LexerError("Finish"))
          => Len(input) <= SumCoveredLen(tokens) + Blanks)

(***************************************************************************)
(* C16.  The scan always ends with lex() returning: every iteration of     *)
(* the dispatch loop either consumes at least one input character and      *)
(* goes on, or lex() returns; as the input is finite, lex() returns after  *)
(* finitely many iterations.                                               *)
(***************************************************************************)
C16_ConsumesOrReturns ==
  [][ pc = "dispatch"
        => \/ pc' = "dispatch" /\ pos' > pos /\ pos' <= Len(input)
           \/ pc' = "returned"
    ]_vars

(***************************************************************************)
(* C17.  An error is final.  In a further lex() call on a Lexer whose      *)
(* status is false, that is, whose earlier call returned on a symbol it    *)
(* could not accept, no token is appended and the status does not become   *)
(* true.                                                                   *)
(***************************************************************************)
C17_ErrorIsFinal ==
  [][ (pc = "dispatch" /\ calls >= 2 /\ get_status = FALSE)
        => tokens' = tokens /\ get_status' = FALSE
    ]_vars

(***************************************************************************)
(* C19.  Scanning the empty input appends no token and ends with clean     *)
(* termination: after lex() has returned, the token sequence is empty and  *)
(* get_status() is true.                                                   *)
(***************************************************************************)
C19_EmptyInput ==
  (input = <<>> /\ pc = "returned")
    => /\ tokens = <<>>
       /\ get_status = TRUE
       /\ exit = "dispatch"

\* lex() has returned on the empty input
C19_Witness == input = <<>> /\ pc = "returned" /\ calls = 1

(***************************************************************************)
(* C20.  The token sequence only grows by appending at its end, and the    *)
(* lexemes of the tokens come from disjoint ranges of the consumed input:  *)
(* the total length of the emitted lexemes never exceeds the number of     *)
(* characters consumed.                                                    *)
(***************************************************************************)
C20_TokensFromConsumedInput ==
  /\ [][ \/ tokens' = tokens
         \/ /\ Len(tokens') = Len(tokens) + 1
            /\ SubSeq(tokens', 1, Len(tokens)) = tokens
       ]_vars
  /\ [](SumLexemeLen(tokens) <= pos)

====
